---- MODULE Spec2Model ----
(***************************************************************************)
(* Model of the document retrieval pipeline of the chat client:           *)
(*   - chunkText            (rag-utils, src/unnamed/part_001)              *)
(*   - the embedding backend and the similarity search (part_001)         *)
(*   - the IndexedDB document store (rag-db, src/unnamed/part_002)        *)
(*   - processFile / onSubmit, the two flows that use them (chat.tsx)     *)
(*                                                                         *)
(* A text is a string over the alphabet {'.', ' ', other}; it is kept as  *)
(* its length and the sets of indices that hold '.' and ' '.              *)
(***************************************************************************)
EXTENDS Integers, Sequences, FiniteSets, TLC

VARIABLES
    text,       \* chunkText: the argument
    start,      \* chunkText: local `start`
    end,        \* chunkText: local `end` of the last iteration
    chunks,     \* chunkText: local `chunks`, the array being built
    cpc,        \* chunkText: "start" | "loop" | "done"
    queryEmbedding,  \* searchSimilarChunks: the embedding of the query
    candidates,      \* searchSimilarChunks: argument `chunks`
    topK,            \* searchSimilarChunks: argument `topK` (ragMaxResults)
    threshold,       \* onSubmit: ragSimilarityThreshold, a fraction num/den
    ranked,          \* searchSimilarChunks: `similarities` after the sort
    results,         \* onSubmit: `results`, what searchSimilarChunks returned
    filteredResults, \* onSubmit: `filteredResults`
    spc,             \* "call" | "searched" | "failed" | "filtered"
    embedCalls,      \* searchSimilarChunks: its calls of generateEmbedding
    dbDocuments,     \* IndexedDB object store 'documents' (committed)
    dbChunks,        \* IndexedDB object store 'chunks' (committed)
    tx,              \* the active readwrite transaction and its uncommitted view
    embeddingPipeline, \* rag-utils: module variable, "null" or "ready"
    initCreated,     \* how many times pipeline(...) has produced a backend
    job,             \* processFile: the file being ingested
    nextDocId,       \* the next fresh identifier generateUUID gives a document
    ingested,        \* per document: how its processFile has ended, if it has
    uiDocuments,     \* RAGDocumentManager: state `documents` (their ids)
    hd,              \* handleDeleteDocument / clearAllDocuments in progress
    qry,             \* onSubmit: the retrieval of the chat flow
    input,           \* onSubmit: what the user typed
    chunkContents,   \* onSubmit: the contents of the chunks of filteredResults
    augmentedInput,  \* onSubmit: the context block followed by the input
    cleanContent,    \* ChatMessage: what is shown of the message
    rpc,             \* "submit" | "sent" | "rendered"
    dbPromise,       \* rag-db: module variable, 0 (null) or the promise held
    dbOpening,       \* the openDB calls started so far, each with its state
    callers          \* the store operations that call openRAGDatabase

chunkVars == <<text, start, end, chunks, cpc>>

searchVars == <<queryEmbedding, candidates, topK, threshold, ranked, results,
                filteredResults, spc, embedCalls>>

storeVars == <<dbDocuments, dbChunks, tx>>

flowVars == <<embeddingPipeline, initCreated, job, nextDocId, ingested,
              uiDocuments, hd, qry>>

renderVars == <<input, chunkContents, augmentedInput, cleanContent, rpc>>

openVars == <<dbPromise, dbOpening, callers>>

vars == <<chunkVars, searchVars, storeVars, flowVars, renderVars, openVars>>

----------------------------------------------------------------------------
(* Program constants *)

CHUNK_SIZE == 512
CHUNK_OVERLAP == 50

----------------------------------------------------------------------------
(* Bounds of the model *)

\* chunkText is stopped after this many pushed chunks (the array cannot grow
\* without limit in the model).
MaxChunks == 5

\* How far beyond one / two windows the long texts of the model reach.
TailLen == 88

\* The longest candidate list given to searchSimilarChunks.
MaxCands == 3

\* The largest ragMaxResults.
MaxK == 3

\* How many files are ingested in one session.
MaxDocs == 1

\* The largest batch given to addDocumentChunks when the store is driven
\* directly.
MaxBatch == 2

\* The longest chunk content and the longest input of a rendered message, in
\* tokens.
MaxTokens == 2

\* The largest number of results formatted into one context block.
MaxSections == 1

\* How many store operations call openRAGDatabase side by side.
MaxCallers == 4

----------------------------------------------------------------------------
(* Helpers *)

Min(a, b) == IF a < b THEN a ELSE b

Max(S) == CHOOSE x \in S : \A y \in S : y <= x

MinOf(S) == CHOOSE x \in S : \A y \in S : x <= y

\* String.prototype.lastIndexOf(ch, fromIndex) on a text whose occurrences of
\* ch are at the indices `occ`: the greatest index <= fromIndex, or -1.
LastIndexOf(occ, fromIndex) ==
    LET hits == {p \in occ : p <= fromIndex}
    IN  IF hits = {} THEN -1 ELSE Max(hits)

\* text.slice(from, to).trim(), as the index range it keeps. Only ' ' is
\* white space in the alphabet of the model. An all-blank slice trims to the
\* empty string, kept as from = to.
Trim(t, from, to) ==
    LET solid == {p \in from .. (to - 1) : p \notin t.spaces}
    IN  IF solid = {} THEN [from |-> from, to |-> from]
        ELSE [from |-> MinOf(solid), to |-> Max(solid) + 1]

ContentLength(c) == c.to - c.from

----------------------------------------------------------------------------
(* The texts of the model *)

TextLens ==
    {0, 1, CHUNK_SIZE, CHUNK_SIZE + 1, CHUNK_SIZE + TailLen,
     2 * CHUNK_SIZE + TailLen}

DotCands == {256, 257, 512}

SpaceCands == {0, 256, 300, 511}

\* A text that opens with a run of blanks as long as a window.
BlankRunText ==
    [len |-> CHUNK_SIZE + TailLen, dots |-> {},
     spaces |-> 0 .. (CHUNK_SIZE - 1)]

Texts ==
    {[len |-> n, dots |-> D, spaces |-> S] :
        n \in TextLens,
        D \in SUBSET DotCands,
        S \in SUBSET SpaceCands}
    \cup {BlankRunText}

WellFormedText(t) ==
    /\ t.dots \cap t.spaces = {}
    /\ \A p \in t.dots \cup t.spaces : p < t.len

----------------------------------------------------------------------------
(* chunkText *)

\* AcceptBoundary with a fault: >= for >.
AcceptBoundaryAtMidpoint(idx, from) == 2 * idx >= 2 * from + CHUNK_SIZE

\* `sentenceEnd > start + CHUNK_SIZE * 0.5`, doubled to stay in the integers.
AcceptBoundary(idx, from) == 2 * idx > 2 * from + CHUNK_SIZE

\* The `end` of the window that starts at `from`.
WindowEnd(t, from) ==
    LET edge == Min(from + CHUNK_SIZE, t.len)
        sentenceEnd == LastIndexOf(t.dots, edge)
        wordEnd == LastIndexOf(t.spaces, edge)
    IN  IF edge < t.len
        THEN IF AcceptBoundary(sentenceEnd, from) THEN sentenceEnd + 1
             ELSE IF AcceptBoundary(wordEnd, from) THEN wordEnd
             ELSE edge
        ELSE edge

\* WholeTextChunks with a fault: the content of the one chunk is trimmed.
WholeTextChunksTrimmed(t) ==
    <<[content |-> Trim(t, 0, t.len), startIndex |-> 0, endIndex |-> t.len]>>

\* chunkText on a text of at most CHUNK_SIZE characters: one chunk, the text,
\* untrimmed.
WholeTextChunks(t) ==
    <<[content |-> [from |-> 0, to |-> t.len],
       startIndex |-> 0, endIndex |-> t.len]>>

\* The short path.
ChunkShort ==
    /\ cpc = "start"
    /\ text.len <= CHUNK_SIZE
    /\ chunks' = WholeTextChunks(text)
    /\ cpc' = "done"
    /\ UNCHANGED <<text, start, end>>
    /\ UNCHANGED <<searchVars, storeVars, flowVars, renderVars, openVars>>

ChunkEnter ==
    /\ cpc = "start"
    /\ text.len > CHUNK_SIZE
    /\ start' = 0
    /\ cpc' = IF 0 < text.len THEN "loop" ELSE "done"
    /\ UNCHANGED <<text, end, chunks>>
    /\ UNCHANGED <<searchVars, storeVars, flowVars, renderVars, openVars>>

\* ChunkIter with a fault: a window that trims to empty is pushed too.
ChunkIterKeepsEmpty ==
    /\ cpc = "loop"
    /\ Len(chunks) < MaxChunks
    /\ LET e == WindowEnd(text, start)
           content == Trim(text, start, e)
           next == e - CHUNK_OVERLAP
       IN  /\ end' = e
           /\ chunks' = Append(chunks, [content |-> content,
                                        startIndex |-> start,
                                        endIndex |-> e])
           /\ start' = next
           /\ cpc' = IF next >= text.len THEN "done" ELSE "loop"
    /\ UNCHANGED text
    /\ UNCHANGED <<searchVars, storeVars, flowVars, renderVars, openVars>>

\* One iteration of the while loop.
ChunkIter ==
    /\ cpc = "loop"
    /\ Len(chunks) < MaxChunks
    /\ LET e == WindowEnd(text, start)
           content == Trim(text, start, e)
           next == e - CHUNK_OVERLAP
       IN  /\ end' = e
           /\ chunks' = IF ContentLength(content) > 0
                        THEN Append(chunks, [content |-> content,
                                             startIndex |-> start,
                                             endIndex |-> e])
                        ELSE chunks
           /\ start' = next
           /\ cpc' = IF next >= text.len THEN "done" ELSE "loop"
    /\ UNCHANGED text
    /\ UNCHANGED <<searchVars, storeVars, flowVars, renderVars, openVars>>

ChunkIdle ==
    /\ text = [len |-> 0, dots |-> {}, spaces |-> {}]
    /\ start = 0
    /\ end = 0
    /\ chunks = <<>>
    /\ cpc = "done"

SearchIdle ==
    /\ queryEmbedding = <<>>
    /\ candidates = <<>>
    /\ topK = 0
    /\ threshold = [num |-> 0, den |-> 1]
    /\ ranked = <<>>
    /\ results = <<>>
    /\ filteredResults = <<>>
    /\ spc = "filtered"
    /\ embedCalls = 0

----------------------------------------------------------------------------
(* cosineSimilarity and searchSimilarChunks *)

\* Embeddings are integer vectors. <<0, 0>> has zero norm; <<1>> has another
\* dimension than the rest.
Vectors == {<<0, 0>>, <<1, 0>>, <<1, 1>>, <<0, 1>>, <<1>>}

\* ragSimilarityThreshold, as a fraction.
Thresholds == {[num |-> 1, den |-> 2], [num |-> 3, den |-> 4]}

RECURSIVE SumTo(_, _)
SumTo(f, n) == IF n = 0 THEN 0 ELSE SumTo(f, n - 1) + f[n]

\* The three accumulators of the loop of cosineSimilarity.
DotProduct(a, b) == SumTo([i \in 1 .. Len(a) |-> a[i] * b[i]], Len(a))

NormSq(a) == SumTo([i \in 1 .. Len(a) |-> a[i] * a[i]], Len(a))

\* SameLength with a fault: a longer second vector is cut to the first.
FirstNotLonger(a, b) == Len(a) <= Len(b)

\* a.length !== b.length is false (else cosineSimilarity throws).
SameLength(a, b) == Len(a) = Len(b)

\* dotProduct / (Math.sqrt(normA) * Math.sqrt(normB)), for vectors of equal
\* length. The quotient q is kept exactly, as the fraction sq / den that equals
\* q * |q| (a strictly increasing function of q), so that quotients compare as
\* the real numbers do. 0 / 0 is NaN.
CosineSimilarity(a, b) ==
    LET dot == DotProduct(a, b)
        den == NormSq(a) * NormSq(b)
    IN  IF den = 0 THEN [nan |-> TRUE, sq |-> 0, den |-> 1]
        ELSE [nan |-> FALSE,
              sq |-> IF dot >= 0 THEN dot * dot ELSE -(dot * dot),
              den |-> den]

IsNaN(x) == x.nan

\* x < y on two numbers that are not NaN.
Less(x, y) == x.sq * y.den < y.sq * x.den

\* ComparatorPositive with a fault: equal similarities count as out of
\* order too.
ComparatorNotNegative(a, b) ==
    /\ ~IsNaN(a.similarity)
    /\ ~IsNaN(b.similarity)
    /\ ~Less(b.similarity, a.similarity)

\* The comparator (a, b) => b.similarity - a.similarity is positive.
ComparatorPositive(a, b) ==
    /\ ~IsNaN(a.similarity)
    /\ ~IsNaN(b.similarity)
    /\ Less(a.similarity, b.similarity)

\* Insert x behind every element the comparator does not put behind it.
RECURSIVE InsertDesc(_, _)
InsertDesc(s, x) ==
    IF s = <<>> THEN <<x>>
    ELSE IF ComparatorPositive(s[Len(s)], x)
         THEN Append(InsertDesc(SubSeq(s, 1, Len(s) - 1), x), s[Len(s)])
         ELSE Append(s, x)

\* A stable sort by the comparator: with a consistent comparator every
\* stable sort returns this sequence.
RECURSIVE StableSortDesc(_)
StableSortDesc(s) ==
    IF s = <<>> THEN <<>>
    ELSE InsertDesc(StableSortDesc(SubSeq(s, 1, Len(s) - 1)), s[Len(s)])

Reorderings(s) ==
    LET n == Len(s)
        bij == {p \in [1 .. n -> 1 .. n] : \A i, j \in 1 .. n :
                                             p[i] = p[j] => i = j}
    IN  {[i \in 1 .. n |-> s[p[i]]] : p \in bij}

\* Array.prototype.sort with the comparator of line 169. The comparator
\* returns NaN when a similarity is NaN and is then not consistent: the order
\* of the result is implementation-defined.
SortOutcomes(s) ==
    IF \E i \in 1 .. Len(s) : IsNaN(s[i].similarity)
    THEN Reorderings(s)
    ELSE {StableSortDesc(s)}

\* Array.prototype.slice(0, k), k >= 0.
Slice(s, k) == SubSeq(s, 1, Min(k, Len(s)))

\* x >= t (false when x is NaN), t a fraction num/den >= 0.
AtLeast(x, t) ==
    /\ ~IsNaN(x)
    /\ x.sq * t.den * t.den >= t.num * t.num * x.den

\* Array.prototype.filter(result => result.similarity >= t).
RECURSIVE FilterByThreshold(_, _)
FilterByThreshold(s, t) ==
    IF s = <<>> THEN <<>>
    ELSE LET rest == FilterByThreshold(SubSeq(s, 1, Len(s) - 1), t)
             last == s[Len(s)]
         IN  IF AtLeast(last.similarity, t) THEN Append(rest, last) ELSE rest

\* chunks.map(chunk => ({chunk, similarity: cosineSimilarity(...)})); a chunk
\* is named by its place in the candidate list.
Similarities(q, cs) ==
    [i \in 1 .. Len(cs) |->
        [chunk |-> i, similarity |-> CosineSimilarity(q, cs[i])]]

\* generateEmbedding(query) in searchSimilarChunks: the backend is
\* initialized if there is none yet, and the query is embedded.
EmbedQuery ==
    /\ embedCalls' = embedCalls + 1
    /\ embeddingPipeline' = "ready"
    /\ initCreated' = IF embeddingPipeline = "null" THEN initCreated + 1
                      ELSE initCreated
    /\ UNCHANGED <<job, nextDocId, ingested, uiDocuments, hd, qry>>

\* SearchEmpty with a fault: the query is embedded before the candidate list
\* is looked at.
SearchEmptyEmbedsQuery ==
    /\ spc = "call"
    /\ Len(candidates) = 0
    /\ EmbedQuery
    /\ ranked' = <<>>
    /\ results' = <<>>
    /\ spc' = "searched"
    /\ UNCHANGED <<queryEmbedding, candidates, topK, threshold,
                   filteredResults>>
    /\ UNCHANGED <<chunkVars, storeVars, renderVars, openVars>>

\* searchSimilarChunks on no chunk: [] at once.
SearchEmpty ==
    /\ spc = "call"
    /\ Len(candidates) = 0
    /\ ranked' = <<>>
    /\ results' = <<>>
    /\ spc' = "searched"
    /\ UNCHANGED <<queryEmbedding, candidates, topK, threshold,
                   filteredResults, embedCalls>>
    /\ UNCHANGED <<chunkVars, storeVars, flowVars, renderVars, openVars>>

\* searchSimilarChunks, cosineSimilarity throwing on a candidate.
SearchThrows ==
    /\ spc = "call"
    /\ Len(candidates) > 0
    /\ \E i \in 1 .. Len(candidates) :
          ~SameLength(queryEmbedding, candidates[i])
    /\ EmbedQuery
    /\ spc' = "failed"
    /\ UNCHANGED <<queryEmbedding, candidates, topK, threshold, ranked,
                   results, filteredResults>>
    /\ UNCHANGED <<chunkVars, storeVars, renderVars, openVars>>

\* searchSimilarChunks: map, sort, slice.
SearchRank ==
    /\ spc = "call"
    /\ Len(candidates) > 0
    /\ \A i \in 1 .. Len(candidates) :
          SameLength(queryEmbedding, candidates[i])
    /\ EmbedQuery
    /\ \E sorted \in SortOutcomes(Similarities(queryEmbedding, candidates)) :
          /\ ranked' = sorted
          /\ results' = Slice(sorted, topK)
    /\ spc' = "searched"
    /\ UNCHANGED <<queryEmbedding, candidates, topK, threshold,
                   filteredResults>>
    /\ UNCHANGED <<chunkVars, storeVars, renderVars, openVars>>

\* onSubmit: results.filter(result => result.similarity >= threshold).
FilterResults ==
    /\ spc = "searched"
    /\ filteredResults' = FilterByThreshold(results, threshold)
    /\ spc' = "filtered"
    /\ UNCHANGED <<queryEmbedding, candidates, topK, threshold, ranked,
                   results, embedCalls>>
    /\ UNCHANGED <<chunkVars, storeVars, flowVars, renderVars, openVars>>

----------------------------------------------------------------------------
(* The document store (rag-db) *)

DocIds == 0 .. MaxDocs

\* The place of "no readwrite transaction is active".
NoTx ==
    [op |-> "none", pc |-> "none", id |-> 0, docs |-> {}, chunks |-> {},
     keys |-> {}, i |-> 0]

DocumentIds(docs) == {d.id : d \in docs}

\* The index 'by-document' of the chunks store.
ChunksOf(cs, id) == {c \in cs : c.documentId = id}

\* db.transaction(..., 'readwrite'): the transaction works on its own view of
\* the stores, which replaces the committed stores when it completes.
\* IndexedDB runs readwrite transactions with overlapping scopes one after
\* the other, and every transaction here has 'chunks' in its scope.
BeginTx(op, pc, id) ==
    [op |-> op, pc |-> pc, id |-> id, docs |-> dbDocuments,
     chunks |-> dbChunks, keys |-> {}, i |-> 1]

\* A read (getAll, get, getAllFromIndex) sees committed records only and
\* waits for a readwrite transaction on the stores it reads.
CanRead == tx.op = "none"

StoreIdle ==
    /\ dbDocuments = {}
    /\ dbChunks = {}
    /\ tx = NoTx

----------------------------------------------------------------------------
(* The flows: processFile, handleDeleteDocument, onSubmit (chat.tsx),      *)
(* processDocument, generateEmbedding (rag-utils)                          *)

\* The contents of the files: a blank one, a short one, one longer than
\* CHUNK_SIZE.
DocTexts ==
    {[len |-> 1, dots |-> {}, spaces |-> {0}],
     [len |-> 1, dots |-> {}, spaces |-> {}],
     [len |-> CHUNK_SIZE + 1, dots |-> {}, spaces |-> {}]}

\* !content.trim()
IsBlank(t) == ContentLength(Trim(t, 0, t.len)) = 0

\* No error has been raised to processFile.
NoError == [raised |-> FALSE, at |-> 0, item |-> 0]

\* The error processDocument raises when the embedding of text chunk number
\* `at` is rejected: the rejection of the backend, passed on as it is.
\* `item` is the chunk the error object names; the backend is given the text
\* only, and nothing on the way up adds an index or a chunk id (the chunk gets
\* its id after its embedding), so it names none (0).
EmbeddingError(at) == [raised |-> TRUE, at |-> at, item |-> 0]

\* `progress` is what onProgress has been called with, in order, each value
\* the fraction num / den; `error` is what the catch of processFile got.
IdleJob ==
    [pc |-> "idle", id |-> 0, n |-> 0, built |-> 0, progress |-> <<>>,
     error |-> NoError]

\* The content of a message: the chunks of its context block (none: no
\* block) and the text behind it.
NoMessage == [context |-> {}, text |-> "none"]

\* The message as the user typed it.
TypedMessage == [context |-> {}, text |-> "input"]

\* `chunks` is what getAllChunks returned; `threw` tells that the retrieval
\* ended in the catch; `prompt` is the content sent to the model and `saved`
\* the content saved to the chat history.
IdleQuery ==
    [pc |-> "idle", chunks |-> {}, threw |-> FALSE, prompt |-> NoMessage,
     saved |-> NoMessage]

IdleDelete == [pc |-> "idle", id |-> 0]

\* The page is single-threaded: while chunkText loops, nothing else runs.
PageRuns == job.pc # "chunking"

\* initializeEmbeddingPipeline, up to its await: with no backend yet the
\* caller starts pipeline(...) and waits for it; else it goes on to the
\* inference.
AwaitEmbedding == IF embeddingPipeline = "null" THEN "awaitInit" ELSE "awaitInfer"

\* The chunk record processDocument builds for the i-th text chunk.
ChunkRecord(docId, i) == [id |-> <<docId, i>>, documentId |-> docId]

Ended(status) ==
    status \in {"embedFailed", "storeFailed", "duplicateKey", "done"}

\* processFile is called (onDrop awaits one file after the other).
IngestStart ==
    /\ PageRuns
    /\ job.pc = "idle"
    /\ nextDocId <= MaxDocs
    /\ job' = [IdleJob EXCEPT !.pc = "reading"]
    /\ UNCHANGED <<embeddingPipeline, initCreated, nextDocId, ingested,
                   uiDocuments, hd, qry>>
    /\ UNCHANGED <<chunkVars, searchVars, storeVars, renderVars, openVars>>

\* IngestRead with a fault: the document record is stored before its chunks
\* are embedded.
IngestReadStoresDocument ==
    /\ PageRuns
    /\ job.pc = "reading"
    /\ tx.op = "none"
    /\ \E t \in DocTexts :
          IF IsBlank(t)
          THEN /\ job' = IdleJob
               /\ UNCHANGED <<nextDocId, ingested, dbDocuments>>
          ELSE /\ nextDocId' = nextDocId + 1
               /\ ingested' = [ingested EXCEPT ![nextDocId] = "running"]
               /\ dbDocuments' =
                    dbDocuments \cup {[id |-> nextDocId, chunkCount |-> 0]}
               /\ job' = IF t.len <= CHUNK_SIZE
                         THEN [pc |-> AwaitEmbedding, id |-> nextDocId,
                               n |-> Len(WholeTextChunks(t)), built |-> 0,
                               progress |-> <<[num |-> 0, den |-> 1]>>,
                               error |-> NoError]
                         ELSE [pc |-> "chunking", id |-> nextDocId,
                               n |-> 0, built |-> 0, progress |-> <<>>,
                               error |-> NoError]
    /\ UNCHANGED <<dbChunks, tx>>
    /\ UNCHANGED <<embeddingPipeline, initCreated, uiDocuments, hd, qry>>
    /\ UNCHANGED <<chunkVars, searchVars, renderVars, openVars>>

\* The file has been read: the blank check, the document object, chunkText,
\* onProgress(0) and the first generateEmbedding up to its await.
IngestRead ==
    /\ PageRuns
    /\ job.pc = "reading"
    /\ \E t \in DocTexts :
          IF IsBlank(t)
          THEN /\ job' = IdleJob
               /\ UNCHANGED <<nextDocId, ingested>>
          ELSE /\ nextDocId' = nextDocId + 1
               /\ ingested' = [ingested EXCEPT ![nextDocId] = "running"]
               /\ job' = IF t.len <= CHUNK_SIZE
                         THEN [pc |-> AwaitEmbedding, id |-> nextDocId,
                               n |-> Len(WholeTextChunks(t)), built |-> 0,
                               progress |-> <<[num |-> 0, den |-> 1]>>,
                               error |-> NoError]
                         ELSE [pc |-> "chunking", id |-> nextDocId,
                               n |-> 0, built |-> 0, progress |-> <<>>,
                               error |-> NoError]
    /\ UNCHANGED <<embeddingPipeline, initCreated, uiDocuments, hd, qry>>
    /\ UNCHANGED <<chunkVars, searchVars, storeVars, renderVars, openVars>>

\* reader.onerror: the read is rejected, processFile catches it.
IngestReadFails ==
    /\ PageRuns
    /\ job.pc = "reading"
    /\ job' = IdleJob
    /\ UNCHANGED <<embeddingPipeline, initCreated, nextDocId, ingested,
                   uiDocuments, hd, qry>>
    /\ UNCHANGED <<chunkVars, searchVars, storeVars, renderVars, openVars>>

\* pipeline(...) resolves for the ingestion: the backend is stored.
IngestInitResolved ==
    /\ PageRuns
    /\ job.pc = "awaitInit"
    /\ embeddingPipeline' = "ready"
    /\ initCreated' = initCreated + 1
    /\ job' = [job EXCEPT !.pc = "awaitInfer"]
    /\ UNCHANGED <<nextDocId, ingested, uiDocuments, hd, qry>>
    /\ UNCHANGED <<chunkVars, searchVars, storeVars, renderVars, openVars>>

\* pipeline(...) or the inference is rejected: processDocument throws and
\* processFile catches it.
IngestEmbeddingFails ==
    /\ PageRuns
    /\ job.pc \in {"awaitInit", "awaitInfer"}
    /\ job' = [IdleJob EXCEPT !.progress = job.progress,
                              !.error = EmbeddingError(job.built + 1)]
    /\ ingested' = [ingested EXCEPT ![job.id] = "embedFailed"]
    /\ UNCHANGED <<embeddingPipeline, initCreated, nextDocId, uiDocuments,
                   hd, qry>>
    /\ UNCHANGED <<chunkVars, searchVars, storeVars, renderVars, openVars>>

\* IngestEmbedded with a fault: onProgress is not called after the chunk.
IngestEmbeddedSilent ==
    /\ PageRuns
    /\ job.pc = "awaitInfer"
    /\ job' = [job EXCEPT !.built = job.built + 1,
                          !.pc = IF job.built + 1 < job.n
                                 THEN AwaitEmbedding ELSE "addDocument"]
    /\ UNCHANGED <<embeddingPipeline, initCreated, nextDocId, ingested,
                   uiDocuments, hd, qry>>
    /\ UNCHANGED <<chunkVars, searchVars, storeVars, renderVars, openVars>>

\* The inference resolves: the chunk record is pushed, onProgress is called,
\* and either the next chunk is embedded or processDocument returns and
\* processFile sets chunkCount and calls addDocument.
IngestEmbedded ==
    /\ PageRuns
    /\ job.pc = "awaitInfer"
    /\ job' = [job EXCEPT !.built = job.built + 1,
                          !.progress = Append(job.progress,
                                              [num |-> job.built + 1,
                                               den |-> job.n]),
                          !.pc = IF job.built + 1 < job.n
                                 THEN AwaitEmbedding ELSE "addDocument"]
    /\ UNCHANGED <<embeddingPipeline, initCreated, nextDocId, ingested,
                   uiDocuments, hd, qry>>
    /\ UNCHANGED <<chunkVars, searchVars, storeVars, renderVars, openVars>>

\* IngestAddDocument with a fault: db.put for db.add, a stored record with
\* the identifier is replaced.
IngestPutDocument ==
    /\ PageRuns
    /\ job.pc = "addDocument"
    /\ tx.op \in {"none", "addChunks"}
    /\ dbDocuments' =
          {d \in dbDocuments : d.id # job.id}
              \cup {[id |-> job.id, chunkCount |-> job.built]}
    /\ job' = [job EXCEPT !.pc = "addChunks"]
    /\ UNCHANGED <<dbChunks, tx>>
    /\ UNCHANGED <<embeddingPipeline, initCreated, nextDocId, ingested,
                   uiDocuments, hd, qry>>
    /\ UNCHANGED <<chunkVars, searchVars, renderVars, openVars>>

\* addDocument: db.add('documents', document); an identifier that is already
\* stored is a ConstraintError.
IngestAddDocument ==
    /\ PageRuns
    /\ job.pc = "addDocument"
    /\ tx.op \in {"none", "addChunks"}
    /\ IF job.id \in DocumentIds(dbDocuments)
       THEN /\ job' = IdleJob
            /\ ingested' = [ingested EXCEPT ![job.id] = "duplicateKey"]
            /\ UNCHANGED dbDocuments
       ELSE /\ dbDocuments' =
                 dbDocuments \cup {[id |-> job.id, chunkCount |-> job.built]}
            /\ job' = [job EXCEPT !.pc = "addChunks"]
            /\ UNCHANGED ingested
    /\ UNCHANGED <<dbChunks, tx>>
    /\ UNCHANGED <<embeddingPipeline, initCreated, nextDocId, uiDocuments,
                   hd, qry>>
    /\ UNCHANGED <<chunkVars, searchVars, renderVars, openVars>>

\* addDocument is rejected by the store (the quota, an aborted transaction).
IngestAddDocumentFails ==
    /\ PageRuns
    /\ job.pc = "addDocument"
    /\ job' = IdleJob
    /\ ingested' = [ingested EXCEPT ![job.id] = "storeFailed"]
    /\ UNCHANGED <<embeddingPipeline, initCreated, nextDocId, uiDocuments,
                   hd, qry>>
    /\ UNCHANGED <<chunkVars, searchVars, storeVars, renderVars, openVars>>

\* addDocumentChunks: db.transaction('chunks', 'readwrite').
IngestBeginChunks ==
    /\ PageRuns
    /\ job.pc = "addChunks"
    /\ tx.op = "none"
    /\ tx' = BeginTx("addChunks", "add", job.id)
    /\ job' = [job EXCEPT !.pc = "inTx"]
    /\ UNCHANGED <<dbDocuments, dbChunks>>
    /\ UNCHANGED <<embeddingPipeline, initCreated, nextDocId, ingested,
                   uiDocuments, hd, qry>>
    /\ UNCHANGED <<chunkVars, searchVars, renderVars, openVars>>

\* The primary keys of the chunks store.
ChunkKeys(cs) == {c.id : c \in cs}

\* IngestAddChunk with a fault: db.add('chunks', chunk), each chunk in a
\* transaction of its own that commits at once.
IngestAddChunkOwnTransaction ==
    /\ PageRuns
    /\ tx.op = "addChunks"
    /\ tx.i <= job.built
    /\ IF ChunkRecord(job.id, tx.i).id \in ChunkKeys(tx.chunks)
       THEN /\ tx' = NoTx
            /\ job' = IdleJob
            /\ ingested' = [ingested EXCEPT ![job.id] = "duplicateKey"]
            /\ UNCHANGED dbChunks
       ELSE /\ tx' = [tx EXCEPT
                        !.chunks = tx.chunks \cup {ChunkRecord(job.id, tx.i)},
                        !.i = tx.i + 1]
            /\ dbChunks' = dbChunks \cup {ChunkRecord(job.id, tx.i)}
            /\ UNCHANGED <<job, ingested>>
    /\ UNCHANGED dbDocuments
    /\ UNCHANGED <<embeddingPipeline, initCreated, nextDocId, uiDocuments,
                   hd, qry>>
    /\ UNCHANGED <<chunkVars, searchVars, renderVars, openVars>>

\* addDocumentChunks: tx.store.add(chunk) of the next chunk of the batch. A
\* key that is already stored is a ConstraintError: the request fails, the
\* transaction aborts and nothing of it is kept; processFile catches the
\* error.
IngestAddChunk ==
    /\ PageRuns
    /\ tx.op = "addChunks"
    /\ tx.i <= job.built
    /\ IF ChunkRecord(job.id, tx.i).id \in ChunkKeys(tx.chunks)
       THEN /\ tx' = NoTx
            /\ job' = IdleJob
            /\ ingested' = [ingested EXCEPT ![job.id] = "duplicateKey"]
       ELSE /\ tx' = [tx EXCEPT
                        !.chunks = tx.chunks \cup {ChunkRecord(job.id, tx.i)},
                        !.i = tx.i + 1]
            /\ UNCHANGED <<job, ingested>>
    /\ UNCHANGED <<dbDocuments, dbChunks>>
    /\ UNCHANGED <<embeddingPipeline, initCreated, nextDocId, uiDocuments,
                   hd, qry>>
    /\ UNCHANGED <<chunkVars, searchVars, renderVars, openVars>>

\* addDocumentChunks: tx.done resolves, the chunks are committed; processFile
\* reports success and returns.
IngestCommitChunks ==
    /\ PageRuns
    /\ tx.op = "addChunks"
    /\ tx.i > job.built
    /\ dbChunks' = tx.chunks
    /\ tx' = NoTx
    /\ job' = IdleJob
    /\ ingested' = [ingested EXCEPT ![job.id] = "done"]
    /\ UNCHANGED dbDocuments
    /\ UNCHANGED <<embeddingPipeline, initCreated, nextDocId, uiDocuments,
                   hd, qry>>
    /\ UNCHANGED <<chunkVars, searchVars, renderVars, openVars>>

\* addDocumentChunks: a request fails or the transaction aborts (the quota);
\* nothing of the transaction is kept, processFile catches the error.
IngestChunksAbort ==
    /\ PageRuns
    /\ tx.op = "addChunks"
    /\ tx' = NoTx
    /\ job' = IdleJob
    /\ ingested' = [ingested EXCEPT ![job.id] = "storeFailed"]
    /\ UNCHANGED <<dbDocuments, dbChunks>>
    /\ UNCHANGED <<embeddingPipeline, initCreated, nextDocId, uiDocuments,
                   hd, qry>>
    /\ UNCHANGED <<chunkVars, searchVars, renderVars, openVars>>

\* loadDocuments: on mount, after a drop, after a delete.
LoadDocuments ==
    /\ PageRuns
    /\ CanRead
    /\ uiDocuments # DocumentIds(dbDocuments)
    /\ uiDocuments' = DocumentIds(dbDocuments)
    /\ UNCHANGED <<embeddingPipeline, initCreated, job, nextDocId, ingested,
                   hd, qry>>
    /\ UNCHANGED <<chunkVars, searchVars, storeVars, renderVars, openVars>>

\* handleDeleteDocument(id) on a listed document: deleteDocument opens
\* db.transaction(['documents', 'chunks'], 'readwrite').
DeleteBegin ==
    /\ PageRuns
    /\ hd.pc = "idle"
    /\ tx.op = "none"
    /\ \E id \in uiDocuments :
          /\ tx' = BeginTx("delete", "deleteDoc", id)
          /\ hd' = [pc |-> "tx", id |-> id]
    /\ UNCHANGED <<dbDocuments, dbChunks>>
    /\ UNCHANGED <<embeddingPipeline, initCreated, job, nextDocId, ingested,
                   uiDocuments, qry>>
    /\ UNCHANGED <<chunkVars, searchVars, renderVars, openVars>>

\* DeleteDocRecord with a fault: the record is deleted outside the
\* transaction.
DeleteDocRecordUnscoped ==
    /\ PageRuns
    /\ tx.op = "delete"
    /\ tx.pc = "deleteDoc"
    /\ dbDocuments' = {d \in dbDocuments : d.id # tx.id}
    /\ tx' = [tx EXCEPT !.docs = {d \in tx.docs : d.id # tx.id},
                        !.pc = "getAllKeys"]
    /\ UNCHANGED dbChunks
    /\ UNCHANGED flowVars
    /\ UNCHANGED <<chunkVars, searchVars, renderVars, openVars>>

\* deleteDocument: tx.objectStore('documents').delete(id).
DeleteDocRecord ==
    /\ PageRuns
    /\ tx.op = "delete"
    /\ tx.pc = "deleteDoc"
    /\ tx' = [tx EXCEPT !.docs = {d \in tx.docs : d.id # tx.id},
                        !.pc = "getAllKeys"]
    /\ UNCHANGED <<dbDocuments, dbChunks>>
    /\ UNCHANGED flowVars
    /\ UNCHANGED <<chunkVars, searchVars, renderVars, openVars>>

\* deleteDocument: index('by-document').getAllKeys(id).
DeleteGetKeys ==
    /\ PageRuns
    /\ tx.op = "delete"
    /\ tx.pc = "getAllKeys"
    /\ tx' = [tx EXCEPT !.keys = {c.id : c \in ChunksOf(tx.chunks, tx.id)},
                        !.pc = "deleteChunks"]
    /\ UNCHANGED <<dbDocuments, dbChunks>>
    /\ UNCHANGED flowVars
    /\ UNCHANGED <<chunkVars, searchVars, renderVars, openVars>>

\* deleteDocument: tx.objectStore('chunks').delete(chunkKey), one key of the
\* loop.
DeleteChunk ==
    /\ PageRuns
    /\ tx.op = "delete"
    /\ tx.pc = "deleteChunks"
    /\ tx.keys # {}
    /\ LET k == CHOOSE k \in tx.keys : \A o \in tx.keys : k[2] <= o[2]
       IN  tx' = [tx EXCEPT !.chunks = {c \in tx.chunks : c.id # k},
                            !.keys = tx.keys \ {k}]
    /\ UNCHANGED <<dbDocuments, dbChunks>>
    /\ UNCHANGED flowVars
    /\ UNCHANGED <<chunkVars, searchVars, renderVars, openVars>>

\* deleteDocument: tx.done resolves; both stores are committed together.
DeleteCommit ==
    /\ PageRuns
    /\ tx.op = "delete"
    /\ tx.pc = "deleteChunks"
    /\ tx.keys = {}
    /\ dbDocuments' = tx.docs
    /\ dbChunks' = tx.chunks
    /\ tx' = NoTx
    /\ hd' = [hd EXCEPT !.pc = "resolved"]
    /\ UNCHANGED <<embeddingPipeline, initCreated, job, nextDocId, ingested,
                   uiDocuments, qry>>
    /\ UNCHANGED <<chunkVars, searchVars, renderVars, openVars>>

\* deleteDocument: a request fails or the transaction aborts, at any point
\* of it; nothing of the transaction is kept.
DeleteAbort ==
    /\ PageRuns
    /\ tx.op = "delete"
    /\ tx' = NoTx
    /\ hd' = [hd EXCEPT !.pc = "rejected"]
    /\ UNCHANGED <<dbDocuments, dbChunks>>
    /\ UNCHANGED <<embeddingPipeline, initCreated, job, nextDocId, ingested,
                   uiDocuments, qry>>
    /\ UNCHANGED <<chunkVars, searchVars, renderVars, openVars>>

\* handleDeleteDocument after deleteDocument: loadDocuments and the toast,
\* or the catch.
DeleteReturned ==
    /\ PageRuns
    /\ hd.pc \in {"resolved", "rejected"}
    /\ hd.pc = "resolved" => CanRead
    /\ uiDocuments' = IF hd.pc = "resolved" THEN DocumentIds(dbDocuments)
                      ELSE uiDocuments
    /\ hd' = IdleDelete
    /\ UNCHANGED <<embeddingPipeline, initCreated, job, nextDocId, ingested,
                   qry>>
    /\ UNCHANGED <<chunkVars, searchVars, storeVars, renderVars, openVars>>

\* clearAllDocuments: db.transaction(['documents', 'chunks'], 'readwrite').
ClearBegin ==
    /\ PageRuns
    /\ tx.op = "none"
    /\ dbDocuments # {} \/ dbChunks # {}
    /\ tx' = BeginTx("clear", "clearDocs", 0)
    /\ UNCHANGED <<dbDocuments, dbChunks>>
    /\ UNCHANGED flowVars
    /\ UNCHANGED <<chunkVars, searchVars, renderVars, openVars>>

\* clearAllDocuments: objectStore('documents').clear().
ClearDocuments ==
    /\ PageRuns
    /\ tx.op = "clear"
    /\ tx.pc = "clearDocs"
    /\ tx' = [tx EXCEPT !.docs = {}, !.pc = "clearChunks"]
    /\ UNCHANGED <<dbDocuments, dbChunks>>
    /\ UNCHANGED flowVars
    /\ UNCHANGED <<chunkVars, searchVars, renderVars, openVars>>

\* clearAllDocuments: objectStore('chunks').clear().
ClearChunks ==
    /\ PageRuns
    /\ tx.op = "clear"
    /\ tx.pc = "clearChunks"
    /\ tx' = [tx EXCEPT !.chunks = {}, !.pc = "done"]
    /\ UNCHANGED <<dbDocuments, dbChunks>>
    /\ UNCHANGED flowVars
    /\ UNCHANGED <<chunkVars, searchVars, renderVars, openVars>>

\* clearAllDocuments: tx.done resolves, or the transaction aborts.
ClearEnd ==
    /\ PageRuns
    /\ tx.op = "clear"
    /\ \E committed \in {tx.pc = "done", FALSE} :
          /\ dbDocuments' = IF committed THEN tx.docs ELSE dbDocuments
          /\ dbChunks' = IF committed THEN tx.chunks ELSE dbChunks
    /\ tx' = NoTx
    /\ UNCHANGED flowVars
    /\ UNCHANGED <<chunkVars, searchVars, renderVars, openVars>>

\* onSubmit with RAG enabled: getAllChunks is called.
QuerySubmit ==
    /\ PageRuns
    /\ qry.pc \in {"idle", "sent"}
    /\ qry' = [IdleQuery EXCEPT !.pc = "getAllChunks"]
    /\ UNCHANGED <<embeddingPipeline, initCreated, job, nextDocId, ingested,
                   uiDocuments, hd>>
    /\ UNCHANGED <<chunkVars, searchVars, storeVars, renderVars, openVars>>

\* getAllChunks resolves. With no chunk the message goes out as typed; else
\* searchSimilarChunks calls generateEmbedding, up to its await.
QueryChunksRead ==
    /\ PageRuns
    /\ qry.pc = "getAllChunks"
    /\ CanRead
    /\ qry' = IF dbChunks = {}
              THEN [IdleQuery EXCEPT !.pc = "sent", !.prompt = TypedMessage,
                                     !.saved = TypedMessage]
              ELSE [qry EXCEPT !.pc = AwaitEmbedding, !.chunks = dbChunks]
    /\ UNCHANGED <<embeddingPipeline, initCreated, job, nextDocId, ingested,
                   uiDocuments, hd>>
    /\ UNCHANGED <<chunkVars, searchVars, storeVars, renderVars, openVars>>

\* pipeline(...) resolves for the query: the backend is stored.
QueryInitResolved ==
    /\ PageRuns
    /\ qry.pc = "awaitInit"
    /\ embeddingPipeline' = "ready"
    /\ initCreated' = initCreated + 1
    /\ qry' = [qry EXCEPT !.pc = "awaitInfer"]
    /\ UNCHANGED <<job, nextDocId, ingested, uiDocuments, hd>>
    /\ UNCHANGED <<chunkVars, searchVars, storeVars, renderVars, openVars>>

\* The query is embedded: the chunks read are ranked, cut to the top k and
\* filtered by the threshold (any of them may pass), the context block of the
\* chunks that pass is put before the input, and the message is submitted
\* and saved.
QueryEmbedded ==
    /\ PageRuns
    /\ qry.pc = "awaitInfer"
    /\ \E passed \in SUBSET qry.chunks :
          qry' = [IdleQuery EXCEPT
                    !.pc = "sent",
                    !.prompt = [context |-> passed, text |-> "input"],
                    !.saved = TypedMessage]
    /\ UNCHANGED <<embeddingPipeline, initCreated, job, nextDocId, ingested,
                   uiDocuments, hd>>
    /\ UNCHANGED <<chunkVars, searchVars, storeVars, renderVars, openVars>>

\* QueryRetrievalFails with a fault: the error is not caught and leaves
\* onSubmit.
QueryRetrievalFailsUncaught ==
    /\ PageRuns
    /\ qry.pc \in {"getAllChunks", "awaitInit", "awaitInfer"}
    /\ qry' = [IdleQuery EXCEPT !.threw = TRUE]
    /\ UNCHANGED <<embeddingPipeline, initCreated, job, nextDocId, ingested,
                   uiDocuments, hd>>
    /\ UNCHANGED <<chunkVars, searchVars, storeVars, renderVars, openVars>>

\* getAllChunks, pipeline(...), the inference or the ranking throws: onSubmit
\* catches the error with augmentedInput still the input, and the message is
\* submitted and saved.
QueryRetrievalFails ==
    /\ PageRuns
    /\ qry.pc \in {"getAllChunks", "awaitInit", "awaitInfer"}
    /\ qry' = [IdleQuery EXCEPT !.pc = "sent", !.threw = TRUE,
                                !.prompt = TypedMessage,
                                !.saved = TypedMessage]
    /\ UNCHANGED <<embeddingPipeline, initCreated, job, nextDocId, ingested,
                   uiDocuments, hd>>
    /\ UNCHANGED <<chunkVars, searchVars, storeVars, renderVars, openVars>>

----------------------------------------------------------------------------
(* The context block: formatRetrievedContext (rag-utils), onSubmit         *)
(* (chat.tsx), the clean-up of ChatMessage (chat-message.tsx)              *)

\* A string is a sequence of tokens: the two sentinels, the two think tags,
\* a white space character, and "a" for any run of other text.
Tokens == {"[CONTEXT]", "[END CONTEXT]", "<think>", "</think>", " ", "a"}

Strings == UNION {[1 .. n -> Tokens] : n \in 0 .. MaxTokens}

ContentLists == UNION {[1 .. n -> Strings] : n \in 1 .. MaxSections}

\* `[Document i] (Relevance: p%)\n` followed by the content of the chunk.
Section(content) == <<"a", " ">> \o content

\* contextSections.join('\n\n'), from section i on.
RECURSIVE JoinSections(_, _)
JoinSections(cs, i) ==
    IF i > Len(cs) THEN <<>>
    ELSE (IF i > 1 THEN <<" ", " ">> ELSE <<>>)
             \o Section(cs[i]) \o JoinSections(cs, i + 1)

FormatRetrievedContext(cs) ==
    IF Len(cs) = 0 THEN <<>>
    ELSE <<"[CONTEXT]", " ", "a", " ", " ">> \o JoinSections(cs, 1)
             \o <<" ", " ", "[END CONTEXT]", " ", " ">>

\* The first index >= i of s that holds tok, or 0.
IndexFrom(s, tok, i) ==
    LET hits == {j \in i .. Len(s) : s[j] = tok}
    IN  IF hits = {} THEN 0 ELSE MinOf(hits)

\* String.prototype.trim().
TrimString(s) ==
    LET solid == {i \in 1 .. Len(s) : s[i] # " "}
    IN  IF solid = {} THEN <<>> ELSE SubSeq(s, MinOf(solid), Max(solid))

\* replace(/<think>[\s\S]*?(?:<\/think>|$)/g, ''), from index i on.
RECURSIVE StripThink(_, _)
StripThink(s, i) ==
    IF i > Len(s) THEN <<>>
    ELSE IF s[i] = "<think>"
         THEN LET j == IndexFrom(s, "</think>", i + 1)
              IN  IF j = 0 THEN <<>> ELSE StripThink(s, j + 1)
         ELSE <<s[i]>> \o StripThink(s, i + 1)

\* The \s* of the pattern: the first index >= i that holds no white space.
RECURSIVE SkipSpace(_, _)
SkipSpace(s, i) ==
    IF i <= Len(s) /\ s[i] = " " THEN SkipSpace(s, i + 1) ELSE i

\* replace(/\[CONTEXT\][\s\S]*?\[END CONTEXT\]\s*/g, ''), from index i on.
RECURSIVE StripContext(_, _)
StripContext(s, i) ==
    IF i > Len(s) THEN <<>>
    ELSE IF s[i] = "[CONTEXT]" /\ IndexFrom(s, "[END CONTEXT]", i + 1) # 0
         THEN StripContext(s, SkipSpace(s, IndexFrom(s, "[END CONTEXT]",
                                                     i + 1) + 1))
         ELSE <<s[i]>> \o StripContext(s, i + 1)

\* cleanContent of ChatMessage.
CleanContent(content) ==
    TrimString(StripContext(TrimString(StripThink(content, 1)), 1))

\* onSubmit with filteredResults.length > 0: the context block is put before
\* the input.
FormatContext ==
    /\ rpc = "submit"
    /\ augmentedInput' = FormatRetrievedContext(chunkContents) \o input
    /\ rpc' = "sent"
    /\ UNCHANGED <<input, chunkContents, cleanContent>>
    /\ UNCHANGED <<chunkVars, searchVars, storeVars, flowVars, openVars>>

\* ChatMessage renders a message whose content is the augmented input.
RenderMessage ==
    /\ rpc = "sent"
    /\ cleanContent' = CleanContent(augmentedInput)
    /\ rpc' = "rendered"
    /\ UNCHANGED <<input, chunkContents, augmentedInput>>
    /\ UNCHANGED <<chunkVars, searchVars, storeVars, flowVars, openVars>>

RenderIdle ==
    /\ input = <<>>
    /\ chunkContents = <<>>
    /\ augmentedInput = <<>>
    /\ cleanContent = <<>>
    /\ rpc = "rendered"

----------------------------------------------------------------------------
(* openRAGDatabase (rag-db)                                                *)

Callers == 1 .. MaxCallers

\* A store operation that has not called openRAGDatabase yet.
CallerAtStart == [pc |-> "start", handle |-> 0]

\* OpenCall with a fault: the open is started but the promise is not stored.
OpenCallUnstored(c) ==
    /\ callers[c].pc = "start"
    /\ IF dbPromise = 0
       THEN /\ dbOpening' = Append(dbOpening, "pending")
            /\ callers' = [callers EXCEPT
                             ![c] = [pc |-> "await",
                                     handle |-> Len(dbOpening) + 1]]
       ELSE /\ callers' = [callers EXCEPT
                             ![c] = [pc |-> "await", handle |-> dbPromise]]
            /\ UNCHANGED dbOpening
    /\ UNCHANGED dbPromise
    /\ UNCHANGED <<chunkVars, searchVars, storeVars, flowVars, renderVars>>

\* A store operation calls openRAGDatabase: with no promise stored, openDB is
\* called and its promise is stored at once; the stored promise is returned
\* and the operation awaits it.
OpenCall(c) ==
    /\ callers[c].pc = "start"
    /\ IF dbPromise = 0
       THEN /\ dbOpening' = Append(dbOpening, "pending")
            /\ dbPromise' = Len(dbOpening) + 1
            /\ callers' = [callers EXCEPT
                             ![c] = [pc |-> "await",
                                     handle |-> Len(dbOpening) + 1]]
       ELSE /\ callers' = [callers EXCEPT
                             ![c] = [pc |-> "await", handle |-> dbPromise]]
            /\ UNCHANGED <<dbPromise, dbOpening>>
    /\ UNCHANGED <<chunkVars, searchVars, storeVars, flowVars, renderVars>>

\* An open settles: the database is open, or openDB is rejected.
OpenSettles(k) ==
    /\ dbOpening[k] = "pending"
    /\ \E outcome \in {"resolved", "rejected"} :
          dbOpening' = [dbOpening EXCEPT ![k] = outcome]
    /\ UNCHANGED <<dbPromise, callers>>
    /\ UNCHANGED <<chunkVars, searchVars, storeVars, flowVars, renderVars>>

\* The await of the operation ends: it goes on with the database, or throws.
CallerResumes(c) ==
    /\ callers[c].pc = "await"
    /\ dbOpening[callers[c].handle] # "pending"
    /\ callers' = [callers EXCEPT ![c].pc = "done"]
    /\ UNCHANGED <<dbPromise, dbOpening>>
    /\ UNCHANGED <<chunkVars, searchVars, storeVars, flowVars, renderVars>>

\* The operation has ended; the next store operation starts.
CallerNext(c) ==
    /\ callers[c].pc = "done"
    /\ callers' = [callers EXCEPT ![c] = CallerAtStart]
    /\ UNCHANGED <<dbPromise, dbOpening>>
    /\ UNCHANGED <<chunkVars, searchVars, storeVars, flowVars, renderVars>>

OpenIdle ==
    /\ dbPromise = 0
    /\ dbOpening = <<>>
    /\ callers = [c \in Callers |-> CallerAtStart]

----------------------------------------------------------------------------
(* The specifications *)

FlowIdle ==
    /\ embeddingPipeline = "null"
    /\ initCreated = 0
    /\ job = IdleJob
    /\ nextDocId = 1
    /\ ingested = [d \in DocIds |-> "new"]
    /\ uiDocuments = {}
    /\ hd = IdleDelete
    /\ qry = IdleQuery

InitChunk ==
    /\ text \in {t \in Texts : WellFormedText(t)}
    /\ start = 0
    /\ end = 0
    /\ chunks = <<>>
    /\ cpc = "start"
    /\ SearchIdle
    /\ StoreIdle
    /\ FlowIdle
    /\ RenderIdle
    /\ OpenIdle

NextChunk == ChunkShort \/ ChunkEnter \/ ChunkIter

SpecChunk == InitChunk /\ [][NextChunk]_vars

CandidateLists == UNION {[1 .. n -> Vectors] : n \in 0 .. MaxCands}

InitSearch ==
    /\ queryEmbedding \in Vectors
    /\ candidates \in CandidateLists
    /\ topK \in 1 .. MaxK
    /\ threshold \in Thresholds
    /\ ranked = <<>>
    /\ results = <<>>
    /\ filteredResults = <<>>
    /\ spc = "call"
    /\ embedCalls = 0
    /\ ChunkIdle
    /\ StoreIdle
    /\ FlowIdle
    /\ RenderIdle
    /\ OpenIdle

NextSearch == SearchEmpty \/ SearchThrows \/ SearchRank \/ FilterResults

SpecSearch == InitSearch /\ [][NextSearch]_vars

\* The store driven directly: addDocument, or addDocumentChunks, is called
\* with a document identifier and a batch of chunks on a store that holds some
\* records already.
StoredDocumentSets == SUBSET {[id |-> d, chunkCount |-> 1] : d \in DocIds}

StoredChunkSets ==
    {{}} \cup {{ChunkRecord(d, i)} : d \in DocIds, i \in 1 .. MaxBatch}

StoreCalls ==
    {[pc |-> pc, id |-> d, n |-> n, built |-> n, progress |-> <<>>,
      error |-> NoError] :
        pc \in {"addDocument", "addChunks"}, d \in DocIds,
        n \in 1 .. MaxBatch}

InitStore ==
    /\ dbDocuments \in StoredDocumentSets
    /\ dbChunks \in StoredChunkSets
    /\ tx = NoTx
    /\ job \in StoreCalls
    /\ ingested = [d \in DocIds |-> IF d = job.id THEN "running" ELSE "new"]
    /\ embeddingPipeline = "ready"
    /\ initCreated = 1
    /\ nextDocId = 1
    /\ uiDocuments = {}
    /\ hd = IdleDelete
    /\ qry = IdleQuery
    /\ ChunkIdle
    /\ SearchIdle
    /\ RenderIdle
    /\ OpenIdle

NextStore ==
    \/ IngestAddDocument \/ IngestAddDocumentFails
    \/ IngestBeginChunks \/ IngestAddChunk \/ IngestCommitChunks
    \/ IngestChunksAbort

SpecStore == InitStore /\ [][NextStore]_vars

\* A chat message is submitted with retrieved chunks, and rendered.
InitRender ==
    /\ input \in Strings
    /\ chunkContents \in ContentLists
    /\ augmentedInput = <<>>
    /\ cleanContent = <<>>
    /\ rpc = "submit"
    /\ ChunkIdle
    /\ SearchIdle
    /\ StoreIdle
    /\ FlowIdle
    /\ OpenIdle

NextRender == FormatContext \/ RenderMessage

SpecRender == InitRender /\ [][NextRender]_vars

\* The module has just been loaded; store operations are called side by side.
InitOpen ==
    /\ OpenIdle
    /\ ChunkIdle
    /\ SearchIdle
    /\ StoreIdle
    /\ FlowIdle
    /\ RenderIdle

NextOpen ==
    \/ \E c \in Callers : OpenCall(c)
    \/ \E k \in 1 .. Len(dbOpening) : OpenSettles(k)
    \/ \E c \in Callers : CallerResumes(c)
    \/ \E c \in Callers : CallerNext(c)

SpecOpen == InitOpen /\ [][NextOpen]_vars

\* The page has just been loaded: no backend, no flow running. The store is
\* empty, or holds document 0 of an earlier session with its chunk.
Init ==
    /\ \E kept \in BOOLEAN :
          /\ dbDocuments = IF kept THEN {[id |-> 0, chunkCount |-> 1]} ELSE {}
          /\ dbChunks = IF kept THEN {ChunkRecord(0, 1)} ELSE {}
          /\ ingested = [d \in DocIds |-> IF kept /\ d = 0 THEN "done" ELSE "new"]
    /\ tx = NoTx
    /\ embeddingPipeline = "null"
    /\ initCreated = 0
    /\ job = IdleJob
    /\ nextDocId = 1
    /\ uiDocuments = {}
    /\ hd = IdleDelete
    /\ qry = IdleQuery
    /\ ChunkIdle
    /\ SearchIdle
    /\ RenderIdle
    /\ OpenIdle

Next ==
    \/ IngestStart \/ IngestRead \/ IngestReadFails
    \/ IngestInitResolved \/ IngestEmbeddingFails \/ IngestEmbedded
    \/ IngestAddDocument \/ IngestAddDocumentFails
    \/ IngestBeginChunks \/ IngestAddChunk \/ IngestCommitChunks
    \/ IngestChunksAbort
    \/ LoadDocuments
    \/ DeleteBegin \/ DeleteDocRecord \/ DeleteGetKeys \/ DeleteChunk
    \/ DeleteCommit \/ DeleteAbort \/ DeleteReturned
    \/ ClearBegin \/ ClearDocuments \/ ClearChunks \/ ClearEnd
    \/ QuerySubmit \/ QueryChunksRead \/ QueryInitResolved
    \/ QueryEmbedded \/ QueryRetrievalFails

Spec == Init /\ [][Next]_vars

----------------------------------------------------------------------------
(* Claims about chunkText, checked under SpecChunk *)

\* C1: chunkText terminates: the window start makes forward progress on every
\* iteration of the loop, and the loop ends once the advanced start reaches
\* or exceeds the text length.
C1_ForwardProgress ==
    [][cpc = "loop" =>
          /\ start' > start
          /\ (start' >= text.len => cpc' = "done")]_vars

\* Why the loop cannot end: the end of a window never passes the end of the
\* text, so the advanced start stays below it; chunkText returns on the short
\* path only.
ChunkTextReturnsOnShortPathOnly ==
    /\ end <= text.len
    /\ cpc = "loop" => start < text.len
    /\ cpc = "done" => text.len <= CHUNK_SIZE

\* C9: the startIndex values of the produced chunks are strictly increasing
\* along the produced sequence.
C9_StartsStrictlyIncreasing ==
    \A i \in 1 .. (Len(chunks) - 1) :
        chunks[i].startIndex < chunks[i + 1].startIndex

\* p is the last occurrence at or before the window edge.
LastAtOrBefore(occ, edge, p) ==
    /\ p \in occ
    /\ p <= edge
    /\ \A q \in occ : q <= edge => q <= p

\* Where the claim puts the end of the window that starts at `from`: after the
\* last '.' if that lies in the accepted half, else at the last ' ' if that
\* does, else at the hard edge. The accepted half starts at the midpoint
\* (inclusive = TRUE) or just after it (inclusive = FALSE).
BoundaryEnd(t, from, inclusive) ==
    LET edge == from + CHUNK_SIZE
        Accepted(p) == IF inclusive THEN 2 * p >= 2 * from + CHUNK_SIZE
                       ELSE 2 * p > 2 * from + CHUNK_SIZE
        dot == {p \in t.dots : LastAtOrBefore(t.dots, edge, p) /\ Accepted(p)}
        space == {p \in t.spaces :
                     LastAtOrBefore(t.spaces, edge, p) /\ Accepted(p)}
    IN  IF dot # {} THEN (CHOOSE p \in dot : TRUE) + 1
        ELSE IF space # {} THEN CHOOSE p \in space : TRUE
        ELSE edge

\* C10 (as claimed): for every window that does not reach the end of the text,
\* the chunk ends after the last '.' at or before the window edge when that
\* '.' lies at or after the midpoint, else at the last ' ' when that lies at
\* or after the midpoint, else at the hard edge.
C10_BoundaryAtOrAfterMidpoint ==
    [][(cpc = "loop" /\ start + CHUNK_SIZE < text.len) =>
          end' = BoundaryEnd(text, start, TRUE)]_vars

\* C10 (amended): the same, with a boundary accepted only when it lies
\* strictly after the midpoint (index > start + CHUNK_SIZE / 2).
C10_BoundaryStrictlyAfterMidpoint ==
    [][(cpc = "loop" /\ start + CHUNK_SIZE < text.len) =>
          end' = BoundaryEnd(text, start, FALSE)]_vars

\* C10 witness: the first window of a long text whose last '.' sits exactly on
\* the midpoint has been cut, and it was cut at the space behind the midpoint.
C10_Witness ==
    /\ text.len > CHUNK_SIZE
    /\ 256 \in text.dots
    /\ text.dots \cap (257 .. 512) = {}
    /\ 300 \in text.spaces
    /\ Len(chunks) >= 1
    /\ chunks[1].startIndex = 0
    /\ chunks[1].endIndex = 300

\* C11: for every text longer than the maximum chunk size, the spans of the
\* chunks chunkText produces cover the text without gaps: the first span
\* starts at 0, each following span starts at or before the end of the one
\* before it, and the last span of the returned sequence ends at text.length.
C11_SpansCoverText ==
    (text.len > CHUNK_SIZE /\ Len(chunks) >= 1) =>
        /\ chunks[1].startIndex = 0
        /\ \A i \in 1 .. (Len(chunks) - 1) :
              chunks[i + 1].startIndex <= chunks[i].endIndex
        /\ cpc = "done" => chunks[Len(chunks)].endIndex = text.len

\* C12: for every text of at most the maximum chunk size, chunkText returns
\* exactly one chunk; its content is the full text (not trimmed), its
\* startIndex is 0 and its endIndex is text.length.
C12_ShortTextOneChunk ==
    (cpc = "done" /\ text.len <= CHUNK_SIZE) =>
        /\ Len(chunks) = 1
        /\ chunks[1].content.from = 0
        /\ chunks[1].content.to = text.len
        /\ chunks[1].startIndex = 0
        /\ chunks[1].endIndex = text.len

\* C12 witness: chunkText has returned for a text of exactly the maximum
\* chunk size that begins with a blank, and the blank is in the content.
C12_Witness ==
    /\ cpc = "done"
    /\ text.len = CHUNK_SIZE
    /\ 0 \in text.spaces
    /\ Len(chunks) = 1
    /\ chunks[1].content = [from |-> 0, to |-> CHUNK_SIZE]

\* The content of chunk c is not empty once it is trimmed.
SolidContent(c) ==
    ContentLength(Trim(text, c.content.from, c.content.to)) > 0

\* C13 (as claimed): chunkText never emits a chunk whose content is empty
\* after trimming, for any input text, the texts of at most the maximum chunk
\* size included.
C13_NoEmptyChunk ==
    \A i \in 1 .. Len(chunks) : SolidContent(chunks[i])

\* C13 (amended): for a text longer than the maximum chunk size, the content
\* of every emitted chunk is its span of the text trimmed, and it is not
\* empty: a window that trims to empty is skipped.
C13_NoEmptyChunkOfLongText ==
    text.len > CHUNK_SIZE =>
        \A i \in 1 .. Len(chunks) :
            /\ SolidContent(chunks[i])
            /\ chunks[i].content.from \notin text.spaces
            /\ (chunks[i].content.to - 1) \notin text.spaces
            /\ chunks[i].content.from >= chunks[i].startIndex
            /\ chunks[i].content.to <= chunks[i].endIndex
            /\ \A p \in chunks[i].startIndex .. (chunks[i].endIndex - 1) :
                  (p < chunks[i].content.from \/ p >= chunks[i].content.to)
                      => p \in text.spaces

\* C13 witness: the first window of a long text was all blanks and was
\* skipped; the first chunk emitted is the trimmed second window.
C13_Witness ==
    /\ text.len > CHUNK_SIZE
    /\ Len(chunks) >= 1
    /\ chunks[1].startIndex = CHUNK_SIZE - 1 - CHUNK_OVERLAP
    /\ chunks[1].content.from = CHUNK_SIZE

\* C22: every chunk chunkText produces spans at most the maximum chunk size,
\* whichever boundary (sentence terminator, space or hard edge) ends its
\* window.
C22_SpanAtMostChunkSize ==
    \A i \in 1 .. Len(chunks) :
        chunks[i].endIndex - chunks[i].startIndex <= CHUNK_SIZE

----------------------------------------------------------------------------
(* Claims about the store and the flows, checked under Spec *)

\* C2: in every reachable state of the store, every stored chunk's
\* documentId is the id of a document record that is stored.
C2_NoOrphanChunk ==
    \A c \in dbChunks : c.documentId \in DocumentIds(dbDocuments)

\* C3: deleteDocument(id) removes the record and its chunks as one unit.
\* While its transaction runs, a step either leaves what the store shows of
\* id as it was or leaves neither the record nor any chunk of id; and when
\* deleteDocument resolves, the record is absent and no chunk of id is left.
C3_DeleteAtomic ==
    [][tx.op = "delete" =>
          /\ \/ /\ (tx.id \in DocumentIds(dbDocuments'))
                     = (tx.id \in DocumentIds(dbDocuments))
                /\ ChunksOf(dbChunks', tx.id) = ChunksOf(dbChunks, tx.id)
             \/ /\ tx.id \notin DocumentIds(dbDocuments')
                /\ ChunksOf(dbChunks', tx.id) = {}
          /\ hd'.pc = "resolved" =>
                /\ tx.id \notin DocumentIds(dbDocuments')
                /\ ChunksOf(dbChunks', tx.id) = {}]_vars

\* C3 witness: deleteDocument has resolved for a document that was stored
\* with its chunk, and neither is left.
C3_Witness ==
    /\ hd.pc = "resolved"
    /\ ingested[hd.id] = "done"
    /\ hd.id \notin DocumentIds(dbDocuments)
    /\ ChunksOf(dbChunks, hd.id) = {}

InitsPending ==
    (IF job.pc = "awaitInit" THEN 1 ELSE 0)
        + (IF qry.pc = "awaitInit" THEN 1 ELSE 0)

\* C4: the embedding backend is initialized at most once: the backends
\* created and the initializations under way are never more than one.
C4_InitializedAtMostOnce == initCreated + InitsPending <= 1

\* C5: a document whose embedding is not finished, or has failed, has no
\* record and no chunk in the store.
C5_NoPersistenceBeforeEmbedded ==
    \A d \in DocIds :
        (\/ ingested[d] = "embedFailed"
         \/ (job.id = d /\ job.pc \in {"chunking", "awaitInit", "awaitInfer"}))
        => /\ d \notin DocumentIds(dbDocuments)
           /\ ChunksOf(dbChunks, d) = {}

\* C5 witness: the embedding of a document has failed.
C5_Witness ==
    \E d \in DocIds :
        /\ ingested[d] = "embedFailed"
        /\ d \notin DocumentIds(dbDocuments)

\* C6: once processFile has returned for a document whose record is stored,
\* the record's chunkCount is the number of stored chunks of the document.
C6_ChunkCountMatches ==
    \A d \in dbDocuments :
        Ended(ingested[d.id]) =>
            d.chunkCount = Cardinality(ChunksOf(dbChunks, d.id))

\* processDocument is running, or has just returned to processFile.
InProcessDocument(j) == j.pc \in {"awaitInit", "awaitInfer", "addDocument"}

\* The reports of progress so far are what the claim says: 0 first, then
\* k / n after the k-th embedded chunk, never decreasing, and 1 at the end
\* when processDocument has returned.
ProgressAsClaimed(j) ==
    /\ Len(j.progress) = j.built + 1
    /\ j.progress[1] = [num |-> 0, den |-> 1]
    /\ \A k \in 1 .. j.built : j.progress[k + 1] = [num |-> k, den |-> j.n]
    /\ \A k \in 1 .. (Len(j.progress) - 1) :
          j.progress[k].num * j.progress[k + 1].den
              <= j.progress[k + 1].num * j.progress[k].den
    /\ j.pc = "addDocument" =>
          j.progress[Len(j.progress)].num = j.progress[Len(j.progress)].den

\* C19: processDocument calls onProgress first with 0 and then once after
\* each embedded chunk with (chunks completed) / (total chunks); the values
\* never decrease; the last one is 1 when processDocument succeeds; and
\* onProgress is not called again after an embedding failure.
C19_ProgressReports ==
    [][/\ InProcessDocument(job') => ProgressAsClaimed(job')
       /\ (job.pc \in {"awaitInit", "awaitInfer"} /\ job'.pc = "idle")
              => job'.progress = job.progress
       /\ (job.pc = "idle" /\ job'.pc = "idle")
              => job'.progress = job.progress]_vars

\* C21: when the backend fails to initialize or to embed one item, the error
\* raised to the caller identifies the failing item (its index or chunk id).
C21_ErrorNamesFailingItem ==
    job.error.raised => job.error.item = job.error.at

\* C19 witness: processDocument has returned after reporting 0 and then 1.
C19_Witness ==
    /\ job.pc = "addDocument"
    /\ job.built = job.n
    /\ job.progress = <<[num |-> 0, den |-> 1], [num |-> 1, den |-> 1]>>

\* C23: the context block put before a prompt holds only chunks whose
\* document is in the store at the moment the prompt is submitted, also when
\* deleteDocument or clearAllDocuments completes while the chat flow awaits
\* the embedding of the query.
C23_ContextOfStoredDocuments ==
    [][(qry.pc # "sent" /\ qry'.pc = "sent") =>
          \A c \in qry'.prompt.context :
              c.documentId \in DocumentIds(dbDocuments')]_vars

\* C24: if the retrieval throws during a submit with RAG enabled, the message
\* is still submitted and the prompt sent to the model is exactly the input,
\* with no context block; the message saved to the chat history is the input
\* in every case.
C24_FailedRetrievalSendsInput ==
    /\ qry.threw =>
          /\ qry.pc = "sent"
          /\ qry.prompt = TypedMessage
    /\ qry.pc = "sent" => qry.saved = TypedMessage

\* C24 witness: the retrieval has thrown with chunks in the store, and the
\* message went out as typed.
C24_Witness ==
    /\ qry.pc = "sent"
    /\ qry.threw
    /\ dbChunks # {}
    /\ qry.prompt = TypedMessage
    /\ qry.saved = TypedMessage

----------------------------------------------------------------------------
(* Claims about the store driven directly, checked under SpecStore *)

\* C17: addDocument with an identifier that is already stored fails (with a
\* duplicate-key error unless the store rejects the request for another
\* reason) and leaves the stored document with that identifier, and every
\* other record, unchanged.
C17_DuplicateDocumentRejected ==
    [][(job.pc = "addDocument" /\ job.id \in DocumentIds(dbDocuments)) =>
          /\ job'.pc = "idle"
          /\ ingested'[job.id] \in {"duplicateKey", "storeFailed"}
          /\ dbDocuments' = dbDocuments
          /\ dbChunks' = dbChunks]_vars

\* C17 witness: addDocument has failed with a duplicate key for a document
\* that is stored and has no chunk.
C17_Witness ==
    \E d \in DocIds :
        /\ ingested[d] = "duplicateKey"
        /\ job.pc = "idle"
        /\ d \in DocumentIds(dbDocuments)
        /\ ChunksOf(dbChunks, d) = {}

\* The chunks given to addDocumentChunks.
Batch(j) == {ChunkRecord(j.id, i) : i \in 1 .. j.built}

\* C18: addDocumentChunks is all-or-nothing: no step of it shows a part of
\* the batch; the chunks in the store stay as they were until the whole batch
\* is committed with the call succeeding, and when an insert fails (a
\* duplicate chunk id, an abort) they are as they were before the call.
C18_AddChunksAllOrNothing ==
    [][tx.op = "addChunks" =>
          /\ \/ dbChunks' = dbChunks
             \/ /\ dbChunks' = dbChunks \cup Batch(job)
                /\ tx'.op = "none"
                /\ ingested'[job.id] = "done"
          /\ (tx'.op = "none" /\ ingested'[job.id] # "done")
                => dbChunks' = dbChunks]_vars

\* C18 witness: a batch of two chunks has failed on its second chunk, whose
\* id was stored already; the first chunk of the batch is not in the store.
C18_Witness ==
    \E d \in DocIds :
        /\ ingested[d] = "duplicateKey"
        /\ d \notin DocumentIds(dbDocuments)
        /\ tx = NoTx
        /\ dbChunks = {ChunkRecord(d, 2)}

----------------------------------------------------------------------------
(* Claims about the search, checked under SpecSearch *)

\* C7: the results used to build the context (top k first, then the
\* threshold) equal those of the mandated order: rank all chunks, keep those
\* at or above the threshold, then truncate to the top k.
C7_FilterThenTruncate ==
    spc = "filtered" =>
        filteredResults = Slice(FilterByThreshold(ranked, threshold), topK)

\* C7, restricted to candidates whose similarities are all defined.
C7_AgreeWhenDefined ==
    (spc = "filtered"
        /\ \A i \in 1 .. Len(ranked) : ~IsNaN(ranked[i].similarity)) =>
        filteredResults = Slice(FilterByThreshold(ranked, threshold), topK)

\* C8: a candidate whose similarity is NaN never appears in the result
\* returned by the search.
C8_NoNaNInResults ==
    spc \in {"searched", "filtered"} =>
        \A i \in 1 .. Len(results) : ~IsNaN(results[i].similarity)

\* x = y on two numbers that are not NaN.
SameNumber(x, y) == ~Less(x, y) /\ ~Less(y, x)

\* Result r of the search comes before candidate c in the mandated order:
\* its similarity is higher, or it is the same and r is earlier in the
\* candidate list.
RanksBefore(r, c) ==
    \/ Less(c.similarity, r.similarity)
    \/ SameNumber(c.similarity, r.similarity) /\ r.chunk < c.chunk

\* All the candidates are compared with the query and get a number.
SimilaritiesDefined ==
    \A i \in 1 .. Len(candidates) :
        /\ Len(candidates[i]) = Len(queryEmbedding)
        /\ NormSq(candidates[i]) # 0
        /\ NormSq(queryEmbedding) # 0

\* C14: for n candidates with defined similarities, searchSimilarChunks
\* returns min(k, n) results; each is a candidate with its similarity; they
\* are in descending order of similarity with equal similarities in candidate
\* order; every candidate left out ranks behind every result; with k >= n
\* every candidate is returned.
C14_TopKStableDescending ==
    (spc \in {"searched", "filtered"} /\ SimilaritiesDefined) =>
        LET n == Len(candidates)
            m == Len(results)
            Returned == {results[i].chunk : i \in 1 .. m}
        IN  /\ m = (IF topK < n THEN topK ELSE n)
            /\ \A i \in 1 .. m :
                  /\ results[i].chunk \in 1 .. n
                  /\ results[i].similarity =
                        CosineSimilarity(queryEmbedding,
                                         candidates[results[i].chunk])
            /\ \A i, j \in 1 .. m :
                  i < j => RanksBefore(results[i], results[j])
            /\ \A c \in (1 .. n) \ Returned : \A i \in 1 .. m :
                  RanksBefore(results[i],
                              [chunk |-> c,
                               similarity |->
                                 CosineSimilarity(queryEmbedding,
                                                  candidates[c])])
            /\ topK >= n => Returned = 1 .. n

\* C14 witness: three candidates, the first two with the same similarity and
\* the third with a higher one, and k = 2: the third and the first are
\* returned, in that order.
C14_Witness ==
    /\ spc = "searched"
    /\ SimilaritiesDefined
    /\ Len(candidates) = 3
    /\ topK = 2
    /\ SameNumber(CosineSimilarity(queryEmbedding, candidates[1]),
                  CosineSimilarity(queryEmbedding, candidates[2]))
    /\ Len(results) = 2
    /\ results[1].chunk = 3
    /\ results[2].chunk = 1

\* C15: a search over an empty candidate list returns an empty result
\* without invoking the embedder: no embedding call is made and no backend is
\* initialized.
C15_EmptySearchSkipsEmbedder ==
    (spc # "call" /\ Len(candidates) = 0) =>
        /\ spc # "failed"
        /\ results = <<>>
        /\ embedCalls = 0
        /\ embeddingPipeline = "null"
        /\ initCreated = 0

\* C15 witness: the search over no candidate has returned, and its empty
\* result has been filtered.
C15_Witness ==
    /\ spc = "filtered"
    /\ Len(candidates) = 0
    /\ results = <<>>
    /\ filteredResults = <<>>
    /\ embedCalls = 0

\* C16: comparing two vectors of unequal length fails and gives no number: a
\* search in which the embedding of any candidate differs in length from the
\* embedding of the query fails and returns no ranking.
C16_UnequalLengthFails ==
    (spc # "call"
        /\ \E i \in 1 .. Len(candidates) :
              Len(candidates[i]) # Len(queryEmbedding)) =>
        /\ spc = "failed"
        /\ ranked = <<>>
        /\ results = <<>>
        /\ filteredResults = <<>>

\* C16 witness: the search has failed on a list whose first two candidates
\* have the length of the query embedding and whose last one has not.
C16_Witness ==
    /\ spc = "failed"
    /\ Len(candidates) = 3
    /\ Len(candidates[1]) = Len(queryEmbedding)
    /\ Len(candidates[2]) = Len(queryEmbedding)
    /\ Len(candidates[3]) # Len(queryEmbedding)
    /\ results = <<>>

----------------------------------------------------------------------------
(* Claims about the context block, checked under SpecRender *)

\* C20: for any non-empty ranked results and any user input, stripping the
\* sentinel-bounded block from formatRetrievedContext(results) + input, as
\* the message renderer does, yields exactly the user's input, trimmed.
C20_StripYieldsInput ==
    rpc = "rendered" => cleanContent = TrimString(input)

\* The string holds none of the sentinels and think tags.
PlainString(s) == \A i \in 1 .. Len(s) : s[i] \in {" ", "a"}

\* C20, restricted to chunk contents and inputs that hold no sentinel and no
\* think tag.
C20_StripYieldsPlainInput ==
    (rpc = "rendered"
        /\ PlainString(input)
        /\ \A i \in 1 .. Len(chunkContents) : PlainString(chunkContents[i]))
    => cleanContent = TrimString(input)

----------------------------------------------------------------------------
(* Claims about openRAGDatabase, checked under SpecOpen *)

\* C25: under any interleaving of store operations, at most one open of the
\* database is started: the first caller stores the pending open at once,
\* and every later or concurrent caller gets that same promise.
C25_OneSharedOpen ==
    /\ Len(dbOpening) <= 1
    /\ dbPromise = Len(dbOpening)
    /\ \A c \in Callers :
          callers[c].pc # "start" => callers[c].handle = dbPromise

\* C25 witness: two operations await the one open while it is pending, and a
\* third has not called yet.
C25_Witness ==
    /\ dbOpening = <<"pending">>
    /\ \E c, d, e \in Callers :
          /\ c # d
          /\ callers[c] = [pc |-> "await", handle |-> 1]
          /\ callers[d] = [pc |-> "await", handle |-> 1]
          /\ callers[e].pc = "start"

====
